---- MODULE Spec2Model ----
(***************************************************************************)
(* Model of the OpenAL backend of simpleaudio (src/src/simpleaudio-openal.c)*)
(*                                                                         *)
(* One caller thread drives open / read / write / close on one simpleaudio *)
(* object; the OpenAL device (its mixer) runs concurrently and is modelled *)
(* by DeviceProgress.  Every OpenAL call of write and close is one atomic  *)
(* step, so the device may make progress between any two calls.            *)
(*                                                                         *)
(* The device follows the OpenAL 1.1 rules the code relies on:             *)
(*   - AL_BUFFERS_QUEUED counts every buffer attached to the source,       *)
(*     processed or not; AL_BUFFERS_PROCESSED is 0 for an INITIAL source,  *)
(*     the whole queue for a STOPPED one;                                  *)
(*   - alSourceUnqueueBuffers removes processed buffers from the head;     *)
(*   - alBufferData fails on a buffer that is attached to a source;        *)
(*   - a source that has played its whole queue becomes STOPPED;           *)
(*   - alSourcePlay on a STOPPED or INITIAL source starts at the head of   *)
(*     the queue;                                                          *)
(*   - alGetError returns the pending error and clears it;                 *)
(*   - any call may fail (out of memory, lost context): `fault`.           *)
(* assert() is the build's default: enabled, a failed assertion aborts.    *)
(***************************************************************************)
EXTENDS Integers, Sequences, FiniteSets, TLC

\* Pool size.  The source sets 128 (line 44); the algorithm is uniform in it
\* and the model checks it with a small pool.
NUM_BUFFERS == 3

\* Number of write calls explored in one behaviour.
MaxWrites == 5

\* A frame count whose byte length in stereo S16 (4 bytes per frame) does not
\* fit the 32-bit ALsizei that alBufferData takes.
BigFrames == 2^30 + 1

FrameCounts == {1, 2, BigFrames}
Directions == {"PLAYBACK", "RECORD"}
Formats == {"S16", "FLOAT"}
ChannelCounts == {1, 2, 3}
OpenOutcomes == {"none", "device", "context", "source", "buffers"}

Buffers == 0 .. NUM_BUFFERS - 1
NoBuffer == 0 - 1

VARIABLES
    pc,                 \* position of the caller thread
    op,                 \* operation in progress, or the last one
    opened,             \* open has been called on this simpleaudio object
    ret,                \* what the last completed operation returned
    calls,              \* device calls made by the operation `op`
    opErr,              \* a device call of operation `op` reported an error
    sa_format,          \* sa->format
    sa_channels,        \* sa->channels
    sa_samplesize,      \* sa->samplesize
    backend_handle,     \* sa->backend_handle: "NULL" or "HDL"
    backend_framesize,  \* sa->backend_framesize
    hdl_direction,      \* hdl->direction
    hdlMem,             \* the malloc'ed openal_handle is allocated
    devOpen,            \* hdl->device is an open ALCdevice
    ctxAlive,           \* hdl->context exists
    srcAlive,           \* hdl->source exists
    bufsAlive,          \* hdl->buffers[] exist
    srcState,           \* AL_SOURCE_STATE
    queue,              \* the source's buffer queue, head first
    pos,                \* buffers of the queue already played (while PLAYING)
    bufData,            \* per buffer: the chunk uploaded and its frames
    alerr,              \* an AL error is pending (alGetError not yet called)
    nframes,            \* write's argument
    nqueuedbufs,        \* write's local
    buffer,             \* write's local
    wcount,             \* write calls so far; the current chunk's number
    played,             \* chunks the device has played, in order
    everQueued,         \* buffers that were ever enqueued on the source
    mayFault            \* the device may report spontaneous errors

vars == << pc, op, opened, ret, calls, opErr, sa_format, sa_channels, sa_samplesize,
           backend_handle, backend_framesize, hdl_direction, hdlMem,
           devOpen, ctxAlive, srcAlive, bufsAlive, srcState, queue, pos,
           bufData, alerr, nframes, nqueuedbufs, buffer, wcount, played,
           everQueued, mayFault >>

saVars == << sa_format, sa_channels, sa_samplesize, backend_handle,
             backend_framesize, hdl_direction, hdlMem >>
resVars == << devOpen, ctxAlive, srcAlive, bufsAlive >>
srcVars == << srcState, queue, pos >>
locVars == << nframes, nqueuedbufs, buffer >>

NoRet == [op |-> "none", val |-> 0]
EmptyBuf == [chunk |-> 0, frames |-> 0]

----------------------------------------------------------------------------
(* Helpers of the code *)

\* Mutant: the assertions are compiled out (NDEBUG).
AssertCompiledOut(cond) == TRUE

\* assert(cond): passes iff cond holds; otherwise the process aborts.
AssertPasses(cond) == cond

\* sizeof of one sample, as the core sets sa->samplesize for a format.
SampleSize(format) == IF format = "S16" THEN 2 ELSE 4

\* al_format(): "ABORT" when one of its assertions fails.
al_format(format, channels) ==
    IF ~AssertPasses(channels = 1 \/ channels = 2) THEN "ABORT"
    ELSE IF format = "S16"
         THEN (IF channels = 1 THEN "MONO16" ELSE "STEREO16")
         ELSE IF AssertPasses(FALSE) THEN "GARBAGE" ELSE "ABORT"

\* Bytes per frame of a device format.
FormatFrameBytes(fmt) == IF fmt = "MONO16" THEN 2 ELSE 4

\* Mutant: the frame count is passed as the byte length.
BufferBytesUnscaled(n, framesize) == n

\* nframes * sa->backend_framesize converted to the 32-bit ALsizei parameter
\* of alBufferData: the low 32 bits of the product, read as signed.
\* Computed in 16-bit limbs so that no intermediate value leaves 32 bits.
BufferBytes(n, framesize) ==
    LET lo  == (n % 65536) * framesize
        hi  == (n \div 65536) * framesize + (lo \div 65536)
        h16 == hi % 65536
        l16 == lo % 65536
    IN  IF h16 >= 32768 THEN (h16 - 65536) * 65536 + l16
        ELSE h16 * 65536 + l16

\* Whether nframes * framesize is representable as an ALsizei (< 2^31).
FitsALsizei(n, framesize) ==
    LET lo == (n % 65536) * framesize
        hi == (n \div 65536) * framesize + (lo \div 65536)
    IN  hi < 32768

\* Mutant: the index is off by one, buffers[nqueuedbufs - 1].
FastPathBufferOffByOne(nq) ==
    IF nq < NUM_BUFFERS THEN (IF nq = 0 THEN 0 ELSE nq - 1) ELSE NoBuffer

\* Line 131-133: the never-queued buffer, if the pool still has one.
FastPathBuffer(nq) == IF nq < NUM_BUFFERS THEN nq ELSE NoBuffer

\* Mutant: the spin loop ends with no processed buffer (nreadybufs < 0).
SpinAgainBelowZero(nready) == nready < 0

\* Line 138: the spin loop goes on while nreadybufs <= 0.
SpinAgain(nready) == nready <= 0

\* Line 166: start playback unless the source is playing.
NeedPlay(state) == state /= "PLAYING"

\* Mutant: close waits for AL_STOPPED, which a never-played source never is.
CloseWaitsForStopped(state) == state /= "STOPPED"

\* Mutant: close does not wait for the source.
CloseNeverWaits(state) == FALSE

\* Line 187: close keeps polling while the source is playing.
CloseWaits(state) == state = "PLAYING"

\* Line 170: write's return value.
WriteReturn(n) == n

\* Mutant: close does not look at the handle.
CloseIgnoresHandle(handle) == FALSE

\* Line 178: close returns at once on a session without a handle.
CloseIsNoop(handle) == handle = "NULL"

----------------------------------------------------------------------------
(* The device *)

\* AL_BUFFERS_PROCESSED
Processed ==
    IF srcState = "STOPPED" THEN Len(queue)
    ELSE IF srcState = "PLAYING" THEN pos
    ELSE 0

InQueue(b) == \E i \in 1 .. Len(queue) : queue[i] = b

\* Attached to the source and not yet processed.
InFlight(b) == \E i \in Processed + 1 .. Len(queue) : queue[i] = b

\* The outcomes of a device call: it works, or (on a device that may fail)
\* it reports an error.
FaultChoices == IF mayFault THEN BOOLEAN ELSE {FALSE}

\* Mutant: the query counts only the buffers that are not yet processed.
QueuedUnprocessedOnly == Len(queue) - Processed

\* AL_BUFFERS_QUEUED: every buffer attached to the source.
QueuedCount == Len(queue)

\* A call on the source fails on a fault or when the source does not exist.
SrcCallFails(fault) == fault \/ ~srcAlive

\* alBufferData succeeds on a buffer of the pool that is not attached to a
\* source, with a known format and a size that is a whole number of frames.
UploadOk(b, fmt, size, fault) ==
    /\ ~fault
    /\ bufsAlive
    /\ b \in Buffers
    /\ ~InQueue(b)
    /\ fmt \in {"MONO16", "STEREO16"}
    /\ size >= 0
    /\ size % FormatFrameBytes(fmt) = 0

\* The state of a simpleaudio object before the backend is opened.
InitSession ==
    /\ pc = "idle"
    /\ op = "none"
    /\ opened = FALSE
    /\ ret = NoRet
    /\ calls = {}
    /\ opErr = FALSE
    /\ sa_format = "NONE"
    /\ sa_channels = 0
    /\ sa_samplesize = 0
    /\ backend_handle = "NULL"
    /\ backend_framesize = 0
    /\ hdl_direction = "NONE"
    /\ hdlMem = FALSE
    /\ devOpen = FALSE
    /\ ctxAlive = FALSE
    /\ srcAlive = FALSE
    /\ bufsAlive = FALSE
    /\ srcState = "NONE"
    /\ queue = << >>
    /\ pos = 0
    /\ bufData = [b \in Buffers |-> EmptyBuf]
    /\ alerr = FALSE
    /\ nframes = 0
    /\ nqueuedbufs = 0
    /\ buffer = NoBuffer
    /\ wcount = 0
    /\ played = << >>
    /\ everQueued = {}

Init == InitSession /\ mayFault = TRUE

\* The mixer finishes the buffer the source is playing; after the last one
\* the source is STOPPED.
DeviceProgress ==
    /\ UNCHANGED mayFault
    /\ pc /= "aborted"
    /\ srcAlive
    /\ srcState = "PLAYING"
    /\ pos < Len(queue)
    /\ played' = Append(played, bufData[queue[pos + 1]].chunk)
    /\ IF pos + 1 = Len(queue)
       THEN srcState' = "STOPPED" /\ pos' = 0
       ELSE srcState' = "PLAYING" /\ pos' = pos + 1
    /\ UNCHANGED << pc, op, opened, ret, calls, opErr, saVars, resVars, queue,
                    bufData, alerr, locVars, wcount, everQueued >>

----------------------------------------------------------------------------
(* sa_openal_open_stream *)

Open ==
    /\ UNCHANGED mayFault
    /\ pc = "idle"
    /\ ~opened
    /\ opened' = TRUE
    /\ \E direction \in Directions, format \in Formats,
          channels \in ChannelCounts, failAt \in OpenOutcomes :
        LET recordOk == AssertPasses(FALSE)
            devOk    == failAt /= "device"
            ctxOk    == failAt /= "context"
            srcOk    == failAt /= "source"
            bufOk    == failAt /= "buffers"
        IN
        /\ op' = "open"
        /\ sa_format' = format
        /\ sa_channels' = channels
        /\ sa_samplesize' = SampleSize(format)
        /\ hdl_direction' = direction
        /\ UNCHANGED << bufData, locVars, wcount, played, everQueued, queue,
                        pos >>
        /\ IF direction = "RECORD" /\ ~recordOk
           THEN \* line 230: assert(0)
                /\ pc' = "aborted"
                /\ hdlMem' = TRUE
                /\ calls' = {}
                /\ UNCHANGED << ret, opErr, backend_handle, backend_framesize,
                                resVars, srcState, alerr >>
           ELSE IF direction = "RECORD" \/ ~devOk
           THEN \* line 238-241, 264-266: no device
                /\ pc' = "idle"
                /\ hdlMem' = FALSE
                /\ calls' = IF direction = "RECORD" THEN {"alGetError"}
                            ELSE {"alcOpenDevice", "alGetError"}
                /\ opErr' = TRUE
                /\ ret' = [op |-> "open", val |-> 0]
                /\ UNCHANGED << backend_handle, backend_framesize, resVars,
                                srcState, alerr >>
           ELSE IF ~ctxOk
           THEN \* line 244-249, 264-266: the device stays open
                /\ pc' = "idle"
                /\ hdlMem' = FALSE
                /\ devOpen' = TRUE
                /\ calls' = {"alcOpenDevice", "alcCreateContext",
                             "alcMakeContextCurrent", "alcGetError"}
                /\ opErr' = TRUE
                /\ ret' = [op |-> "open", val |-> 0]
                /\ UNCHANGED << backend_handle, backend_framesize, ctxAlive,
                                srcAlive, bufsAlive, srcState, alerr >>
           ELSE IF ~AssertPasses(srcOk)
           THEN \* line 252-253
                /\ pc' = "aborted"
                /\ hdlMem' = TRUE
                /\ devOpen' = TRUE
                /\ ctxAlive' = TRUE
                /\ calls' = {"alcOpenDevice", "alcCreateContext",
                             "alcMakeContextCurrent", "alGenSources",
                             "alGetError"}
                /\ opErr' = TRUE
                /\ UNCHANGED << ret, backend_handle, backend_framesize,
                                srcAlive, bufsAlive, srcState, alerr >>
           ELSE IF ~AssertPasses(bufOk)
           THEN \* line 256-257
                /\ pc' = "aborted"
                /\ hdlMem' = TRUE
                /\ devOpen' = TRUE
                /\ ctxAlive' = TRUE
                /\ srcAlive' = srcOk
                /\ srcState' = IF srcOk THEN "INITIAL" ELSE "NONE"
                /\ calls' = {"alcOpenDevice", "alcCreateContext",
                             "alcMakeContextCurrent", "alGenSources",
                             "alGenBuffers", "alGetError"}
                /\ opErr' = TRUE
                /\ UNCHANGED << ret, backend_handle, backend_framesize,
                                bufsAlive, alerr >>
           ELSE \* line 259-262
                /\ pc' = "idle"
                /\ hdlMem' = TRUE
                /\ devOpen' = TRUE
                /\ ctxAlive' = TRUE
                /\ srcAlive' = srcOk
                /\ srcState' = IF srcOk THEN "INITIAL" ELSE "NONE"
                /\ bufsAlive' = bufOk
                /\ calls' = {"alcOpenDevice", "alcCreateContext",
                             "alcMakeContextCurrent", "alGenSources",
                             "alGenBuffers", "alGetError"}
                /\ opErr' = (~srcOk \/ ~bufOk)
                /\ backend_handle' = "HDL"
                /\ backend_framesize' = channels * SampleSize(format)
                /\ ret' = [op |-> "open", val |-> 1]
                /\ UNCHANGED alerr

----------------------------------------------------------------------------
(* sa_openal_read *)

\* Line 116: assert(0).  Without the assertion the function ends without a
\* return statement and the caller reads an indeterminate value.
Read ==
    /\ UNCHANGED mayFault
    /\ pc = "idle"
    /\ op' = "read"
    /\ calls' = {}
    /\ opErr' = FALSE
    /\ IF AssertPasses(FALSE)
       THEN /\ pc' = "idle"
            /\ \E v \in {0 - 1, 0, 1} : ret' = [op |-> "read", val |-> v]
       ELSE /\ pc' = "aborted"
            /\ UNCHANGED ret
    /\ UNCHANGED << opened, saVars, resVars, srcVars, bufData, alerr, locVars,
                    wcount, played, everQueued >>

----------------------------------------------------------------------------
(* sa_openal_write *)

\* Lines 123-133: query the queued count and take the never-queued buffer.
WriteBegin ==
    /\ UNCHANGED mayFault
    /\ pc = "idle"
    /\ backend_handle = "HDL"
    /\ wcount < MaxWrites
    /\ \E n \in FrameCounts, fault \in FaultChoices :
        LET failed == SrcCallFails(fault)
            nq     == IF failed THEN 0 ELSE QueuedCount
            b      == FastPathBuffer(nq)
        IN
        /\ op' = "write"
        /\ nframes' = n
        /\ wcount' = wcount + 1
        /\ calls' = {"alGetSourcei", "alGetError"}
        /\ opErr' = failed
        /\ nqueuedbufs' = nq
        /\ alerr' = FALSE
        /\ IF AssertPasses(~(alerr \/ failed))
           THEN /\ buffer' = b
                /\ pc' = IF b = NoBuffer THEN "w_spin" ELSE "w_data"
           ELSE /\ buffer' = NoBuffer
                /\ pc' = "aborted"
    /\ UNCHANGED << opened, ret, saVars, resVars, srcVars, bufData, played,
                    everQueued >>

\* Lines 137-141: one turn of the spin on AL_BUFFERS_PROCESSED.
WriteSpin ==
    /\ UNCHANGED mayFault
    /\ pc = "w_spin"
    /\ \E fault \in FaultChoices :
        LET failed == SrcCallFails(fault)
            nready == IF failed THEN 0 ELSE Processed
        IN
        /\ opErr' = (opErr \/ failed)
        /\ alerr' = FALSE
        /\ pc' = IF ~AssertPasses(~(alerr \/ failed)) THEN "aborted"
                 ELSE IF SpinAgain(nready) THEN "w_spin"
                 ELSE "w_unqueue"
    /\ UNCHANGED << op, opened, ret, calls, saVars, resVars, srcVars, bufData,
                    locVars, wcount, played, everQueued >>

\* Lines 143-144: unqueue one processed buffer, the head of the queue.
WriteUnqueue ==
    /\ UNCHANGED mayFault
    /\ pc = "w_unqueue"
    /\ \E fault \in FaultChoices :
        LET failed == SrcCallFails(fault) \/ Processed < 1 IN
        /\ calls' = calls \cup {"alSourceUnqueueBuffers"}
        /\ opErr' = (opErr \/ failed)
        /\ alerr' = FALSE
        /\ IF failed
           THEN UNCHANGED << queue, pos, buffer >>
           ELSE /\ buffer' = Head(queue)
                /\ queue' = Tail(queue)
                /\ pos' = IF srcState = "PLAYING" THEN pos - 1 ELSE pos
        /\ pc' = IF AssertPasses(~(alerr \/ failed)) THEN "w_data"
                 ELSE "aborted"
    /\ UNCHANGED << op, opened, ret, saVars, resVars, srcState, bufData, nframes,
                    nqueuedbufs, wcount, played, everQueued >>

\* Lines 148-155: upload the caller's frames into the selected buffer.
WriteData ==
    /\ UNCHANGED mayFault
    /\ pc = "w_data"
    /\ \E fault \in FaultChoices :
        LET fmt    == al_format(sa_format, sa_channels)
            size   == BufferBytes(nframes, backend_framesize)
            failed == ~UploadOk(buffer, fmt, size, fault)
        IN
        IF fmt = "ABORT"
        THEN /\ pc' = "aborted"
             /\ UNCHANGED << calls, opErr, alerr, bufData >>
        ELSE /\ calls' = calls \cup {"alBufferData"}
             /\ opErr' = (opErr \/ failed)
             /\ alerr' = FALSE
             /\ bufData' =
                  IF failed THEN bufData
                  ELSE [bufData EXCEPT ![buffer] =
                          [chunk  |-> wcount,
                           frames |-> size \div FormatFrameBytes(fmt)]]
             /\ pc' = IF AssertPasses(~(alerr \/ failed)) THEN "w_queue"
                      ELSE "aborted"
    /\ UNCHANGED << op, opened, ret, saVars, resVars, srcVars, locVars, wcount,
                    played, everQueued >>

\* Lines 158-159: enqueue the buffer at the tail of the source's queue.
WriteQueue ==
    /\ UNCHANGED mayFault
    /\ pc = "w_queue"
    /\ \E fault \in FaultChoices :
        LET failed == SrcCallFails(fault) \/ buffer \notin Buffers
                      \/ ~bufsAlive
        IN
        /\ calls' = calls \cup {"alSourceQueueBuffers"}
        /\ opErr' = (opErr \/ failed)
        /\ alerr' = FALSE
        /\ IF failed
           THEN UNCHANGED << queue, everQueued >>
           ELSE /\ queue' = Append(queue, buffer)
                /\ everQueued' = everQueued \cup {buffer}
        /\ pc' = IF AssertPasses(~(alerr \/ failed)) THEN "w_state"
                 ELSE "aborted"
    /\ UNCHANGED << op, opened, ret, saVars, resVars, srcState, pos, bufData,
                    locVars, wcount, played >>

\* Lines 162-166, 170: query the source state; return if it is playing.
WriteState ==
    /\ UNCHANGED mayFault
    /\ pc = "w_state"
    /\ \E fault \in FaultChoices :
        LET failed == SrcCallFails(fault)
            state  == IF failed THEN "UNSET" ELSE srcState
        IN
        /\ opErr' = (opErr \/ failed)
        /\ alerr' = FALSE
        /\ IF ~AssertPasses(~(alerr \/ failed))
           THEN pc' = "aborted" /\ UNCHANGED ret
           ELSE IF NeedPlay(state)
           THEN pc' = "w_play" /\ UNCHANGED ret
           ELSE /\ pc' = "idle"
                /\ ret' = [op |-> "write", val |-> WriteReturn(nframes)]
    /\ UNCHANGED << op, opened, calls, saVars, resVars, srcVars, bufData, locVars,
                    wcount, played, everQueued >>

\* Lines 167, 170: start playback (its error is not looked at) and return.
WritePlay ==
    /\ UNCHANGED mayFault
    /\ pc = "w_play"
    /\ \E fault \in FaultChoices :
        LET failed == SrcCallFails(fault) IN
        /\ calls' = calls \cup {"alSourcePlay"}
        /\ opErr' = (opErr \/ failed)
        /\ alerr' = (alerr \/ failed)
        /\ IF failed
           THEN UNCHANGED << srcState, pos >>
           ELSE /\ srcState' = IF Len(queue) = 0 THEN "STOPPED" ELSE "PLAYING"
                /\ pos' = 0
        /\ pc' = "idle"
        /\ ret' = [op |-> "write", val |-> WriteReturn(nframes)]
    /\ UNCHANGED << op, opened, saVars, resVars, queue, bufData, locVars, wcount,
                    played, everQueued >>

----------------------------------------------------------------------------
(* sa_openal_close *)

\* Lines 177-180: a session without a handle is left alone.
CloseBegin ==
    /\ UNCHANGED mayFault
    /\ pc = "idle"
    /\ op' = "close"
    /\ calls' = {}
    /\ opErr' = FALSE
    /\ IF CloseIsNoop(backend_handle)
       THEN /\ pc' = "idle"
            /\ ret' = [op |-> "close", val |-> 0]
       ELSE /\ pc' = "c_poll"
            /\ UNCHANGED ret
    /\ UNCHANGED << opened, saVars, resVars, srcVars, bufData, alerr, locVars,
                    wcount, played, everQueued >>

\* Lines 183-187: one turn of the drain loop.
ClosePoll ==
    /\ UNCHANGED mayFault
    /\ pc = "c_poll"
    /\ \E fault \in FaultChoices :
        LET failed == SrcCallFails(fault)
            state  == IF failed THEN "UNSET" ELSE srcState
        IN
        /\ calls' = calls \cup {"alGetSourcei", "alGetError"}
        /\ opErr' = (opErr \/ failed)
        /\ alerr' = FALSE
        /\ pc' = IF ~AssertPasses(~(alerr \/ failed)) THEN "aborted"
                 ELSE IF CloseWaits(state) THEN "c_poll"
                 ELSE "c_release"
    /\ UNCHANGED << op, opened, ret, saVars, resVars, srcVars, bufData, locVars,
                    wcount, played, everQueued >>

\* Lines 189-208: delete the source, destroy the context, close the device.
\* The buffers are not deleted and hdl is not freed.  alcCloseDevice on a
\* device that still holds buffers either fails (OpenAL 1.1) or releases them
\* itself (`lenient`), depending on the implementation.
CloseRelease ==
    /\ UNCHANGED mayFault
    /\ pc = "c_release"
    /\ \E lenient \in BOOLEAN :
        /\ devOpen' = IF bufsAlive /\ ~lenient THEN devOpen ELSE FALSE
        /\ bufsAlive' = IF lenient THEN FALSE ELSE bufsAlive
        /\ opErr' = (opErr \/ (bufsAlive /\ ~lenient))
    /\ calls' = calls \cup {"alDeleteSources", "alcMakeContextCurrent",
                            "alcDestroyContext",
                            IF hdl_direction = "PLAYBACK"
                            THEN "alcCloseDevice"
                            ELSE "alcCaptureCloseDevice"}
    /\ srcAlive' = FALSE
    /\ srcState' = "NONE"
    /\ queue' = << >>
    /\ pos' = 0
    /\ ctxAlive' = FALSE
    /\ backend_handle' = "NULL"
    /\ pc' = "idle"
    /\ ret' = [op |-> "close", val |-> 0]
    /\ UNCHANGED << op, opened, sa_format, sa_channels, sa_samplesize,
                    backend_framesize, hdl_direction, hdlMem, bufData, alerr,
                    locVars, wcount, played, everQueued >>

----------------------------------------------------------------------------

Next ==
    \/ Open
    \/ Read
    \/ WriteBegin
    \/ WriteSpin
    \/ WriteUnqueue
    \/ WriteData
    \/ WriteQueue
    \/ WriteState
    \/ WritePlay
    \/ CloseBegin
    \/ ClosePoll
    \/ CloseRelease
    \/ DeviceProgress

Spec == Init /\ [][Next]_vars

\* The steps of an operation in progress: the caller thread keeps running.
CallerStep ==
    \/ WriteSpin
    \/ WriteUnqueue
    \/ WriteData
    \/ WriteQueue
    \/ WriteState
    \/ WritePlay
    \/ ClosePoll
    \/ CloseRelease

\* A device that reports no spontaneous errors and keeps playing, and a
\* caller thread that keeps running once it is inside an operation.
InitFair == InitSession /\ mayFault = FALSE

SpecFair ==
    /\ InitFair
    /\ [][Next]_vars
    /\ WF_vars(DeviceProgress)
    /\ WF_vars(CallerStep)

----------------------------------------------------------------------------
(* Properties *)

Range(f) == {f[i] : i \in DOMAIN f}

\* The write in progress took the pool-exhausted path.
SlowPath == nqueuedbufs >= NUM_BUFFERS

\* The last operation was a write and it has returned.
WriteReturned == pc = "idle" /\ op = "write"

\* What every returned write has done, whatever its frame count: it returned
\* its argument and its buffer is the one buffer it added to the queue.
WriteEnqueuedOne ==
    /\ ret = [op |-> "write", val |-> nframes]
    /\ buffer \in Buffers
    /\ Len(queue) = (IF SlowPath THEN nqueuedbufs ELSE nqueuedbufs + 1)
    /\ queue[Len(queue)] = buffer
    /\ \A i \in 1 .. Len(queue) - 1 : queue[i] /= buffer
    /\ bufData[buffer].chunk = wcount

\* C1: whenever write is about to upload data, its target buffer is not
\* queued-and-unprocessed on the source: either it was never queued, or this
\* write unqueued it after the device had processed it.
C1_UploadTargetNotInFlight ==
    pc = "w_data" =>
        /\ buffer \in Buffers
        /\ ~InFlight(buffer)
        /\ \/ buffer \notin everQueued
           \/ SlowPath /\ ~InQueue(buffer)

\* C1 witness: write is about to refill a buffer that was queued before,
\* while other buffers are still unprocessed on the source.
C1_Witness ==
    /\ pc = "w_data"
    /\ buffer \in everQueued
    /\ Processed < Len(queue)

\* C2: on an open session the source's queue never holds more buffers than
\* the pool has.
C2_QueueBounded ==
    backend_handle = "HDL" => Len(queue) <= NUM_BUFFERS

\* C2 witness: the queue is full after more writes than the pool has
\* buffers, with the device having completed some of them.
C2_Witness ==
    /\ backend_handle = "HDL"
    /\ pc = "idle"
    /\ Len(queue) = NUM_BUFFERS
    /\ wcount > NUM_BUFFERS
    /\ Processed > 0

\* C3 as stated: every write that returns returns its frame count and has
\* enqueued exactly one buffer, which holds exactly those frames.
C3_WriteAcceptsAllFrames ==
    WriteReturned =>
        /\ WriteEnqueuedOne
        /\ bufData[buffer].frames = nframes

\* C3 amended: every write that returns returns its frame count and has
\* enqueued exactly one buffer; the buffer holds exactly those frames when
\* the byte length nframes * framesize fits the 32-bit signed ALsizei.
C3_WriteAcceptsFittingFrames ==
    WriteReturned =>
        /\ WriteEnqueuedOne
        /\ FitsALsizei(nframes, backend_framesize) =>
               bufData[buffer].frames = nframes

\* C3 witness: a write of two frames returned after reusing a buffer.
C3_Witness ==
    /\ WriteReturned
    /\ nframes = 2
    /\ SlowPath
    /\ bufData[buffer].frames = 2

\* C4: close releases the source, the context or the device only from the
\* point where it has seen the source not playing, and then no queued buffer
\* is unprocessed and every chunk written has been played.
C4_CloseDrainsBeforeRelease ==
    [][ ((srcAlive /\ ~srcAlive') \/ (ctxAlive /\ ~ctxAlive')
            \/ (devOpen /\ ~devOpen')) =>
            /\ pc = "c_release"
            /\ srcState /= "PLAYING"
            /\ Processed = Len(queue)
            /\ \A c \in 1 .. wcount : c \in Range(played) ]_vars

\* C4 witness: close has seen the source stopped after more writes than the
\* pool has buffers and is about to release.
C4_Witness ==
    /\ pc = "c_release"
    /\ srcState = "STOPPED"
    /\ wcount > NUM_BUFFERS

\* C5: once close has returned on a session that was open, the source, the
\* context, the device and the pool buffers are all released.
C5_CloseReleasesEverything ==
    (pc = "idle" /\ op = "close" /\ "alDeleteSources" \in calls) =>
        ~srcAlive /\ ~ctxAlive /\ ~devOpen /\ ~bufsAlive

\* C6: when an acquisition step of open fails, open returns failure and
\* holds none of the resources it had acquired.
C6_OpenFailureRollsBack ==
    (op = "open" /\ opErr) =>
        /\ pc = "idle"
        /\ ret = [op |-> "open", val |-> 0]
        /\ ~devOpen /\ ~ctxAlive /\ ~srcAlive /\ ~bufsAlive /\ ~hdlMem

Supported(format, channels) == format = "S16" /\ channels \in {1, 2}

\* C7: open with an unsupported format/channel combination fails without
\* having made any device call.
C7_OpenRejectsBadFormat ==
    (op = "open" /\ ~Supported(sa_format, sa_channels)) =>
        /\ calls = {}
        /\ ret /= [op |-> "open", val |-> 1]

\* C8: close on a session without a handle (closed before, or never opened)
\* returns without a device call and without changing the session or the
\* device; the handle stays unset.
C8_CloseOnClosedIsNoop ==
    [][ (pc = "idle" /\ backend_handle = "NULL" /\ op' = "close"
            /\ played' = played) =>
            /\ pc' = "idle"
            /\ calls' = {}
            /\ backend_handle' = "NULL"
            /\ UNCHANGED << saVars, resVars, srcVars, bufData, alerr >> ]_vars

\* C8 witness: a second close has returned on a session that open had
\* succeeded on (hdl was allocated and the handle is unset again).
C8_Witness ==
    /\ pc = "idle"
    /\ op = "close"
    /\ calls = {}
    /\ hdlMem
    /\ backend_handle = "NULL"
    /\ ret = [op |-> "close", val |-> 0]

\* C9: the step by which the first write returns is its start-playback
\* step, and it leaves the source playing.
C9_FirstWriteStartsPlayback ==
    [][ (op = "write" /\ wcount = 1 /\ pc /= "idle" /\ pc' = "idle") =>
            /\ pc = "w_play"
            /\ srcState' = "PLAYING" ]_vars

\* C10: once a device call of write has reported an error, the write does
\* not return: the session is in the fatal condition.
C10_WriteErrorIsFatal ==
    (op = "write" /\ opErr) => pc = "aborted"

\* C11: open with direction Record returns failure to the caller, holding
\* no device, context, source or buffers and storing no handle.
C11_RecordOpenFails ==
    (op = "open" /\ hdl_direction = "RECORD") =>
        /\ pc = "idle"
        /\ ret = [op |-> "open", val |-> 0]
        /\ backend_handle = "NULL"
        /\ ~devOpen /\ ~ctxAlive /\ ~srcAlive /\ ~bufsAlive

\* C12: read, in whatever state it is called, does not return: it ends in
\* the fatal condition without a device call and leaves the handle, the
\* resources, the queue, the buffers and the playback state as they were.
C12_ReadNeverReturns ==
    [][ (pc = "idle" /\ op' = "read") =>
            /\ pc' = "aborted"
            /\ ret' = ret
            /\ calls' = {}
            /\ UNCHANGED << saVars, resVars, srcVars, bufData, alerr,
                            played >> ]_vars

\* C12 witness: read was called while the source was playing queued
\* buffers.
C12_Witness ==
    /\ op = "read"
    /\ pc = "aborted"
    /\ srcState = "PLAYING"
    /\ Len(queue) > 1

\* C13: the k-th of the first NUM_BUFFERS writes of a session reads a
\* queued count of k-1, takes pool buffer k-1 without spinning or
\* unqueuing, and leaves k buffers queued.
C13_FirstWritesUseFastPath ==
    (op = "write" /\ wcount <= NUM_BUFFERS /\ pc /= "aborted") =>
        /\ pc \notin {"w_spin", "w_unqueue"}
        /\ nqueuedbufs = wcount - 1
        /\ buffer = wcount - 1
        /\ "alSourceUnqueueBuffers" \notin calls
        /\ pc \in {"w_state", "w_play", "idle"} =>
              /\ Len(queue) = wcount
              /\ queue[wcount] = wcount - 1
              /\ bufData[wcount - 1].chunk = wcount

\* C13 witness: NUM_BUFFERS writes have returned before the device has
\* finished any buffer, and all buffers are queued.
C13_Witness ==
    /\ WriteReturned
    /\ wcount = NUM_BUFFERS
    /\ Len(queue) = NUM_BUFFERS
    /\ played = << >>

\* C14: a write that read a queued count of NUM_BUFFERS changes neither a
\* buffer nor the queue while it spins, leaves the spin only when the
\* device reports a processed buffer, unqueues the head of the queue and
\* uploads into and enqueues exactly that buffer.  (A step that leaves
\* `played` alone is a step of the caller, not of the device.)
C14_SlowPathReusesHead ==
    [][ (op = "write" /\ SlowPath /\ pc \notin {"idle", "aborted"}
            /\ played' = played) =>
            /\ pc = "w_spin" =>
                  /\ UNCHANGED << queue, bufData >>
                  /\ pc' \in {"w_spin", "w_unqueue", "aborted"}
                  /\ pc' = "w_unqueue" => Processed >= 1
            /\ (pc = "w_unqueue" /\ pc' /= "aborted") =>
                  /\ Len(queue) = NUM_BUFFERS
                  /\ Processed >= 1
                  /\ buffer' = Head(queue)
                  /\ queue' = Tail(queue)
                  /\ bufData' = bufData
            /\ pc \in {"w_data", "w_queue", "w_state", "w_play"} =>
                  buffer' = buffer
            /\ (pc = "w_data" /\ pc' /= "aborted") =>
                  /\ queue' = queue
                  /\ \A b \in Buffers \ {buffer} : bufData'[b] = bufData[b]
                  /\ bufData'[buffer].chunk = wcount
            /\ (pc = "w_queue" /\ pc' /= "aborted") =>
                  /\ queue' = Append(queue, buffer)
                  /\ bufData' = bufData
            /\ pc \in {"w_state", "w_play"} =>
                  UNCHANGED << queue, bufData >> ]_vars

\* C14 witness: a write on the pool-exhausted path is about to enqueue the
\* buffer it took from the head of the queue.
C14_Witness ==
    /\ op = "write"
    /\ SlowPath
    /\ pc = "w_queue"
    /\ Len(queue) = NUM_BUFFERS - 1
    /\ bufData[buffer].chunk = wcount

\* C15: whenever write is on the fast path with queued count k, its buffer
\* is pool buffer k and that buffer was never enqueued in this session.
C15_FastPathBufferIsFresh ==
    (op = "write" /\ pc = "w_data" /\ ~SlowPath) =>
        /\ buffer = nqueuedbufs
        /\ buffer \notin everQueued

\* C15 witness: a fast-path write after an underrun: the source has
\* stopped with its processed buffers still attached.
C15_Witness ==
    /\ op = "write"
    /\ pc = "w_data"
    /\ ~SlowPath
    /\ srcState = "STOPPED"
    /\ Len(queue) >= 1

\* C16: a handle is stored only with device, context, source and pool all
\* acquired; open acquires them in that order; open stores the handle
\* exactly when it returns success.
C16_NoHalfInitializedSession ==
    /\ backend_handle = "HDL" =>
          devOpen /\ ctxAlive /\ srcAlive /\ bufsAlive /\ hdlMem
    /\ op = "open" =>
          /\ ctxAlive => devOpen
          /\ srcAlive => ctxAlive
          /\ bufsAlive => srcAlive
          /\ (ret = [op |-> "open", val |-> 1]) <=> (backend_handle = "HDL")
          /\ (ret = [op |-> "open", val |-> 0] \/ pc = "aborted") =>
                backend_handle = "NULL"

\* C16 witness: open has returned success.
C16_Witness ==
    /\ op = "open"
    /\ pc = "idle"
    /\ ret = [op |-> "open", val |-> 1]
    /\ backend_handle = "HDL"

\* C17: between operations on an open session, a queue that holds an
\* unprocessed buffer belongs to a playing source.
C17_QueuedImpliesPlaying ==
    (pc = "idle" /\ backend_handle = "HDL" /\ Processed < Len(queue)) =>
        srcState = "PLAYING"

\* C18: the device plays the chunks once each and in the order of the write
\* calls: the i-th buffer it finishes holds chunk i.
C18_PlayedOnceInOrder ==
    \A i \in 1 .. Len(played) : played[i] = i

WriteInProgress ==
    op = "write" /\ pc \in {"w_spin", "w_unqueue", "w_data", "w_queue",
                           "w_state", "w_play"}

\* While write spins, the source is playing or has a processed buffer, and
\* the spin ends.
SpinEnds ==
    /\ [](pc = "w_spin" => (srcState = "PLAYING" \/ Processed >= 1))
    /\ (pc = "w_spin" ~> pc /= "w_spin")

\* C19: with a fair device that reports no errors, every write call on an
\* open session returns.
C19_WriteReturns ==
    WriteInProgress ~> (WriteReturned \/ opErr)

\* C20: with a fair device that reports no errors, every close call on an
\* open session returns with the handle unset, and a close on a session
\* that was never written finds the source not playing at its first poll.
C20_CloseReturns ==
    /\ []((pc = "c_poll" /\ wcount = 0) => srcState = "INITIAL")
    /\ (pc = "c_poll" ~>
          (pc = "idle" /\ op = "close" /\ backend_handle = "NULL"))

\* C20 witness: close has returned after more writes than the pool has
\* buffers.
C20_Witness ==
    /\ pc = "idle"
    /\ op = "close"
    /\ "alDeleteSources" \in calls
    /\ backend_handle = "NULL"
    /\ wcount > NUM_BUFFERS

====
